---- MODULE Spec2Model ----
(***************************************************************************)
(* Model of the personal-finance-monitoring pipeline:                      *)
(*   src/src/data.py         get_files, flag_recurring, apply_fixed_rules, *)
(*                           preprocessing, load                           *)
(*   src/src/forecasting.py  sarima (resampling and differencing steps)    *)
(*                                                                         *)
(* Text is modelled as a tuple of one-character strings, so that           *)
(* lower-casing, prefix tests and substring search are computed.           *)
(* A DataFrame is a sequence of rows; a row's position is its index label  *)
(* (preprocessing resets the index before the rules are applied).          *)
(* Dates are day numbers; NaT is the missing date.                         *)
(***************************************************************************)
EXTENDS Integers, Sequences, FiniteSets, TLC

VARIABLES
    raw,        \* data/raw: name of each file present -> its content
    register,   \* data/processed/register.json: whether it exists, and name -> timestamp
    table,      \* data/processed/transactions.csv: whether it exists, and its rows
    now,        \* the clock read by datetime.now(); one tick per preprocessing run
    run,        \* what the last preprocessing run was given, read and did
    df,         \* the DataFrame handed to flag_recurring / apply_fixed_rules
    flags,      \* the Series returned by flag_recurring
    data,       \* the transactions handed to sarima
    frequency,  \* sarima's frequency argument
    result      \* what sarima returned or raised

vars == <<raw, register, table, now, run, df, flags, data, frequency, result>>

ingestVars   == <<raw, register, table, now, run>>
frameVars    == <<df, flags>>
forecastVars == <<data, frequency, result>>

-----------------------------------------------------------------------------
(* Text *)

Range(s) == {s[i] : i \in DOMAIN s}

\* a function on 1..n as an explicit sequence (evaluated once)
List(f) == SubSeq(f, 1, Len(f))

lowercase ==
    [A |-> "a", B |-> "b", C |-> "c", D |-> "d", E |-> "e", F |-> "f", G |-> "g",
     H |-> "h", I |-> "i", J |-> "j", K |-> "k", L |-> "l", M |-> "m", N |-> "n",
     O |-> "o", P |-> "p", Q |-> "q", R |-> "r", S |-> "s", T |-> "t", U |-> "u",
     V |-> "v", W |-> "w", X |-> "x", Y |-> "y", Z |-> "z"]

\* str.lower()
RECURSIVE lower(_)
lower(s) ==
    IF s = <<>> THEN <<>>
    ELSE <<IF Head(s) \in DOMAIN lowercase THEN lowercase[Head(s)] ELSE Head(s)>>
         \o lower(Tail(s))

\* str.startswith(prefix)
startswith(s, prefix) ==
    /\ Len(prefix) <= Len(s)
    /\ \A i \in 1..Len(prefix) : s[i] = prefix[i]

\* the keywords hold no regular-expression metacharacter, so the search for
\* one alternative of the pattern is a substring search
HasSubstring(s, k) ==
    \E o \in 0..(Len(s) - Len(k)) : \A i \in 1..Len(k) : s[o + i] = k[i]

\* str.contains('|'.join(keywords))
contains(s, keywords) == \E j \in DOMAIN keywords : HasSubstring(s, keywords[j])

-----------------------------------------------------------------------------
(* flag_recurring *)

NaT == -1
NaN == 0

marker ==
    <<"e","u","r","o","p","e","a","n"," ","d","i","r","e","c","t"," ",
      "d","e","b","i","t"," ","c","r","e","d","i","t","o","r">>

PeriodLow  == 27
PeriodHigh == 33

Orderings(n) == {p \in [1..n -> 1..n] : \A i, j \in 1..n : i # j => p[i] # p[j]}

\* sort keys put the missing value last (na_position='last')
Before(a, b, missing) == IF a = missing THEN FALSE ELSE (b = missing \/ a < b)

\* the order of df.sort_values(['recipient', 'date']): a stable lexicographic
\* sort, given as the sequence of index labels
RowBefore(d, i, j) ==
    \/ Before(d[i].recipient, d[j].recipient, NaN)
    \/ /\ d[i].recipient = d[j].recipient
       /\ \/ Before(d[i].date, d[j].date, NaT)
          \/ d[i].date = d[j].date /\ i < j

sort_values(d) ==
    LET place(i) == 1 + Cardinality({j \in 1..Len(d) : RowBefore(d, j, i)}) IN
    List([k \in 1..Len(d) |-> CHOOSE i \in 1..Len(d) : place(i) = k])

\* groupby('recipient')['date'].shift(1), in the sorted order; rows whose
\* recipient is missing belong to no group
prev_dates(d, p) ==
    List([k \in 1..Len(d) |->
        IF k > 1 /\ d[p[k]].recipient # NaN /\ d[p[k - 1]].recipient = d[p[k]].recipient
        THEN d[p[k - 1]].date
        ELSE NaT])

\* (df_sorted['date'] - prev_dates).dt.days.between(27, 33), in the sorted order
periodic_flag(d, p) ==
    LET prev == prev_dates(d, p) IN
    List([k \in 1..Len(d) |->
        /\ d[p[k]].date # NaT
        /\ prev[k] # NaT
        /\ d[p[k]].date - prev[k] >= PeriodLow
        /\ d[p[k]].date - prev[k] <= PeriodHigh])

base_flag(d) == List([i \in 1..Len(d) |-> startswith(lower(d[i].description), marker)])

\* an assignment by position: the sorted flags land on the unsorted rows
RealignByPosition(p, series) == series

\* is_recurring.loc[df_sorted.index] = is_recurring.loc[df_sorted.index] | periodic_flag
\* the assignment aligns on the index label, not on the position
Realign(p, series) == List([i \in DOMAIN p |-> series[CHOOSE k \in DOMAIN p : p[k] = i]])

flag_recurring(d) ==
    LET p == sort_values(d)
        is_recurring == base_flag(d)
        periodic == Realign(p, periodic_flag(d, p))
    IN  List([i \in 1..Len(d) |-> is_recurring[i] \/ periodic[i]])

-----------------------------------------------------------------------------
(* apply_fixed_rules *)

Others == "Others"

\* the rule table, in its declared order (a dict keeps insertion order)
fixed_rules == <<
    [concept |-> "Salary", is_essential |-> TRUE,
     keywords |-> << <<"a","r","h","s">> >>],
    [concept |-> "Rent", is_essential |-> TRUE,
     keywords |-> << <<"d","e","s","p","e","s">> >>],
    [concept |-> "Groceries", is_essential |-> TRUE,
     keywords |-> << <<"d","e","l","h","a","i","z","e">>,
                     <<"c","a","r","r","e","f","o","u","r">>,
                     <<"c","r","f"," ","e","x","p">>,
                     <<"f","i","n","e","s","t"," ","g","l","o","b","e"," ",
                       "b","e","l","l","i","a","r","d">> >>],
    [concept |-> "Insurance", is_essential |-> TRUE,
     keywords |-> << <<"F","M","S","B","-","F","S","M","B">> >>],
    [concept |-> "Savings", is_essential |-> TRUE,
     keywords |-> << <<"e","s","t","a","l","v","i","s">> >>],
    [concept |-> "Grooming", is_essential |-> TRUE,
     keywords |-> << <<"s","p","o","r","t","o","a","s","e">>,
                     <<"x","x","l"," ","n","u","t","r","i","t","i","o","n">>,
                     <<"a","p","o","t","h","e","e","k">>,
                     <<"k","n","a","p","p","e","r">> >>],
    [concept |-> "Transport", is_essential |-> TRUE,
     keywords |-> << <<"s","t","i","b">>, <<"s","n","c","b">>,
                     <<"n","m","b","s">>, <<"b","a","h","n">> >>],
    [concept |-> "Cantine", is_essential |-> FALSE,
     keywords |-> << <<"c","a","n","t","i","n","e">> >>],
    [concept |-> "Subscriptions", is_essential |-> FALSE,
     keywords |-> << <<"k","b","c"," ","p","l","u","s">> >> ] >>

\* mask = df['description'].str.lower().str.contains(pattern), for one row
\* whose lower-cased description is given
mask(lowered, rule) == contains(lowered, rule.keywords)

\* the loop over fixed_rules.items() for one row: rules 1..k applied in order
\* to the defaults, each match overwriting concept and is_essential
\* a loop that keeps the first match instead of overwriting
RECURSIVE rule_loop_first_wins(_, _)
rule_loop_first_wins(lowered, k) ==
    IF k = 0
    THEN [is_essential |-> FALSE, concept |-> Others]
    ELSE LET before == rule_loop_first_wins(lowered, k - 1) IN
         IF mask(lowered, fixed_rules[k]) /\ before.concept = Others
         THEN [before EXCEPT !.concept = fixed_rules[k].concept,
                             !.is_essential = fixed_rules[k].is_essential]
         ELSE before

RECURSIVE rule_loop(_, _)
rule_loop(lowered, k) ==
    IF k = 0
    THEN [is_essential |-> FALSE, concept |-> Others]
    ELSE LET before == rule_loop(lowered, k - 1) IN
         IF mask(lowered, fixed_rules[k])
         THEN [before EXCEPT !.concept = fixed_rules[k].concept,
                             !.is_essential = fixed_rules[k].is_essential]
         ELSE before

\* the rows gain the columns is_recurring, is_essential and concept
apply_fixed_rules(d) ==
    LET recurring == flag_recurring(d) IN
    List([i \in 1..Len(d) |->
        LET set == rule_loop(lower(d[i].description), Len(fixed_rules)) IN
        [date |-> d[i].date, recipient |-> d[i].recipient,
         description |-> d[i].description, sender |-> d[i].sender,
         origin |-> d[i].origin,
         is_recurring |-> recurring[i],
         is_essential |-> set.is_essential, concept |-> set.concept]])

-----------------------------------------------------------------------------
(* Values shared by the specifications *)

NoOrigin == <<>>

GeneralAccount == <<"B","E","1","7">>
SavingsAccount == <<"B","E","2","9">>
OtherAccount   == <<"B","E","3","3">>

SeqsUpTo(S, n) == UNION {[1..k -> S] : k \in 1..n}

NotCalled == [called |-> FALSE, value |-> <<>>]

-----------------------------------------------------------------------------
(* Ingestion: get_files, preprocessing, load *)

\* str.endswith(suffix)
endswith(s, suffix) ==
    /\ Len(suffix) <= Len(s)
    /\ \A i \in 1..Len(suffix) : s[Len(s) - Len(suffix) + i] = suffix[i]

csv == <<".","c","s","v">>

General == <<"G","e","n","e","r","a","l">>
Savings == <<"S","a","v","i","n","g","s">>

\* os.getenv('GENERAL_ACCOUNT_ENDING'), os.getenv('SAVINGS_ACCOUNT_ENDING')
GENERAL_ACCOUNT_ENDING == <<"1","7">>
SAVINGS_ACCOUNT_ENDING == <<"2","9">>

sender_mapping ==
    << [suffix |-> GENERAL_ACCOUNT_ENDING, replacement |-> General],
       [suffix |-> SAVINGS_ACCOUNT_ENDING, replacement |-> Savings] >>

replace_sender(value) ==
    IF \E k \in DOMAIN sender_mapping : endswith(value, sender_mapping[k].suffix)
    THEN LET first == CHOOSE k \in DOMAIN sender_mapping :
                 /\ endswith(value, sender_mapping[k].suffix)
                 /\ \A j \in 1..(k - 1) : ~endswith(value, sender_mapping[j].suffix)
         IN  sender_mapping[first].replacement
    ELSE value

\* the columns the pipeline reads after the rename, by their header names
NeededColumns ==
    {"Accountnumber", "Date", "Description", "Amount", "Balance",
     "Counterparty account number"}

\* the orders os.listdir may give the files of a directory in
Listings(S) ==
    {l \in [1..Cardinality(S) -> S] : \A i, j \in DOMAIN l : i # j => l[i] # l[j]}

NoEntries == [f \in {} |-> 0]

\* get_files that returns every file whatever the register holds
get_files_unfiltered(all_files, reg, reprocess) ==
    IF reprocess \/ ~reg.exists
    THEN [files |-> all_files, register |-> NoEntries]
    ELSE [files |-> all_files, register |-> reg.entries]

\* get_files that filters but hands back an empty register
get_files_forgetful(all_files, reg, reprocess) ==
    IF reprocess \/ ~reg.exists
    THEN [files |-> all_files, register |-> NoEntries]
    ELSE LET pending(f) == f \notin DOMAIN reg.entries IN
         [files |-> SelectSeq(all_files, pending), register |-> NoEntries]

\* get_files: (files, register)
get_files(all_files, reg, reprocess) ==
    IF reprocess \/ ~reg.exists
    THEN [files |-> all_files, register |-> NoEntries]
    ELSE LET pending(f) == f \notin DOMAIN reg.entries IN
         [files |-> SelectSeq(all_files, pending), register |-> reg.entries]

\* load(): the persisted rows whose sender is 'General'
load(tab) ==
    LET general(r) == r.sender = General IN SelectSeq(tab.rows, general)

\* the rows pd.concat reads from the .csv files among `files`, in that order,
\* each tagged with the file it came from
RECURSIVE read_all(_, _)
read_all(dir, files) ==
    IF files = <<>> THEN <<>>
    ELSE LET f == Head(files) IN
         (IF endswith(f, csv)
          THEN List([i \in DOMAIN dir[f].rows |->
                   [date |-> dir[f].rows[i].date,
                    sender |-> dir[f].rows[i].account,
                    recipient |-> dir[f].rows[i].recipient,
                    description |-> dir[f].rows[i].description,
                    numeric |-> dir[f].rows[i].numeric,
                    origin |-> f]])
          ELSE <<>>)
         \o read_all(dir, Tail(files))

\* what stops lines 61-88: no .csv file to concatenate, a file with fewer
\* columns than the first file's header, a needed column outside the columns
\* kept, or an amount/balance that is no number
read_error(dir, files) ==
    LET ncols == Len(dir[files[1]].header)
        csvs  == {f \in Range(files) : endswith(f, csv)}
    IN  IF csvs = {} THEN "ValueError"
        ELSE IF \E f \in csvs : Len(dir[f].header) < ncols THEN "SchemaError"
        ELSE IF \E f \in csvs :
                   ~(NeededColumns \subseteq Range(SubSeq(dir[f].header, 1, ncols)))
             THEN "KeyError"
        ELSE IF \E f \in csvs : \E i \in DOMAIN dir[f].rows : ~dir[f].rows[i].numeric
             THEN "ParseError"
        ELSE "none"

\* df.sort_values(by='date'): ascending, NaT last; a single-key sort is not
\* stable, so rows of equal date may come out in any order
sorted_by_date(rows) ==
    {List([k \in DOMAIN rows |-> rows[p[k]]]) : p \in
        {q \in Orderings(Len(rows)) :
            \A k \in 1..(Len(rows) - 1) :
                ~Before(rows[q[k + 1]].date, rows[q[k]].date, NaT)}}

\* lines 89-99: annotate, then map the sender
normalise(rows) ==
    LET annotated == apply_fixed_rules(rows) IN
    List([i \in DOMAIN rows |->
        [annotated[i] EXCEPT !.sender = replace_sender(annotated[i].sender)]])

\* lines 107-110
commit(entries, files, clock) ==
    [f \in DOMAIN entries \cup Range(files) |->
        IF f \in Range(files) THEN clock ELSE entries[f]]

-----------------------------------------------------------------------------
(* Specification Spec: the raw directory changes, preprocessing runs *)

MaxRuns == 2

a_csv     == <<"a",".","c","s","v">>
b_csv     == <<"b",".","c","s","v">>
notes_txt == <<"n","o","t","e","s",".","t","x","t">>

Files == {a_csv, b_csv, notes_txt}

FullHeader ==
    <<"Accountnumber", "Date", "Description", "Amount", "Balance",
      "Counterparty account number">>
LongHeader == FullHeader \o <<"Free-format reference">>

\* statement exports a user may drop into data/raw
RentStatement ==
    [header |-> FullHeader,
     rows |-> << [date |-> 31, account |-> GeneralAccount, recipient |-> 1,
                  description |-> <<"D","e","s","p","e","s">>, numeric |-> TRUE] >>]
MixedStatement ==
    [header |-> LongHeader,
     rows |-> << [date |-> 40, account |-> GeneralAccount, recipient |-> 2,
                  description |-> <<"A","R","H","S"," ","s","t","i","b">>, numeric |-> TRUE],
                 [date |-> 1, account |-> SavingsAccount, recipient |-> 1,
                  description |-> <<"e","s","t","a","l","v","i","s">>, numeric |-> TRUE] >>]
BrokenStatement ==
    [header |-> FullHeader,
     rows |-> << [date |-> NaT, account |-> GeneralAccount, recipient |-> 2,
                  description |-> <<"t","a","x","i">>, numeric |-> FALSE] >>]
Note == [header |-> <<"todo">>, rows |-> <<>>]

Contents(f) ==
    IF endswith(f, csv)
    THEN {RentStatement, MixedStatement, BrokenStatement}
    ELSE {Note}

NoRun ==
    [reprocess |-> FALSE, files |-> <<>>, register |-> NoEntries,
     outcome |-> "none", batch |-> <<>>]

IngestIdle ==
    /\ raw = NoEntries
    /\ register = [exists |-> FALSE, entries |-> NoEntries]
    /\ table = [exists |-> FALSE, rows |-> <<>>]
    /\ now = 0
    /\ run = NoRun

FrameIdle == df = <<>> /\ flags = NotCalled

ForecastIdle ==
    /\ data = <<>>
    /\ frequency = "ME"
    /\ result = [status |-> "none"]

Init == IngestIdle /\ FrameIdle /\ ForecastIdle

\* the user puts a file into data/raw, or replaces one
PutFile ==
    /\ \E f \in Files : \E c \in Contents(f) :
          /\ (f \in DOMAIN raw => raw[f] # c)
          /\ raw' = [g \in DOMAIN raw \cup {f} |-> IF g = f THEN c ELSE raw[g]]
    /\ UNCHANGED <<register, table, now, run, frameVars, forecastVars>>

\* the user removes a file from data/raw
RemoveFile ==
    /\ \E f \in DOMAIN raw : raw' = [g \in DOMAIN raw \ {f} |-> raw[g]]
    /\ UNCHANGED <<register, table, now, run, frameVars, forecastVars>>

\* one call of preprocessing(reprocess)
preprocessing(reprocess, all_files) ==
    LET got   == get_files(all_files, register, reprocess)
        files == got.files
        ran(outcome, batch) ==
            [reprocess |-> reprocess, files |-> files, register |-> got.register,
             outcome |-> outcome, batch |-> batch]
    IN
    IF files = <<>>
    THEN \* "No new files to process"
         /\ run' = ran("nothing to do", <<>>)
         /\ UNCHANGED <<register, table, now>>
    ELSE IF read_error(raw, files) # "none"
    THEN \* lines 61-88 raise
         /\ run' = ran(read_error(raw, files), <<>>)
         /\ UNCHANGED <<register, table, now>>
    ELSE IF ~reprocess /\ ~table.exists
    THEN \* line 105: load() finds no transactions.csv
         /\ run' = ran("FileNotFoundError", <<>>)
         /\ UNCHANGED <<register, table, now>>
    ELSE \E batch \in {normalise(sorted) :
                           sorted \in sorted_by_date(read_all(raw, files))} :
            /\ table' = [exists |-> TRUE,
                         rows |-> IF reprocess THEN batch ELSE load(table) \o batch]
            /\ register' =
                   [exists |-> TRUE,
                    entries |-> commit(IF reprocess THEN NoEntries ELSE got.register,
                                       files, now)]
            /\ now' = now + 1
            /\ run' = ran("written", batch)

Preprocess ==
    /\ now < MaxRuns
    /\ \E reprocess \in BOOLEAN : \E all_files \in Listings(DOMAIN raw) :
          preprocessing(reprocess, all_files)
    /\ UNCHANGED <<raw, frameVars, forecastVars>>

Next == PutFile \/ RemoveFile \/ Preprocess

Spec == Init /\ [][Next]_vars

-----------------------------------------------------------------------------
(* Specification SpecRecurring: flag_recurring on every small batch *)

MaxRecRows == 2

DirectDebit ==
    <<"E","u","r","o","p","e","a","n"," ","D","i","r","e","c","t"," ",
      "D","e","b","i","t"," ","C","r","e","d","i","t","o","r"," ","X">>
CardPayment == <<"t","a","x","i">>

RecDates == {0, 7, 33, 34, 37, 44}

RecurringRows ==
    [date : RecDates \cup {NaT}, recipient : {NaN, 1, 2},
     description : {DirectDebit, CardPayment},
     sender : {GeneralAccount}, origin : {NoOrigin}]

FlagRecurring ==
    /\ ~flags.called
    /\ flags' = [called |-> TRUE, value |-> flag_recurring(df)]
    /\ UNCHANGED <<df, ingestVars, forecastVars>>

InitRecurring ==
    /\ df \in SeqsUpTo(RecurringRows, MaxRecRows)
    /\ flags = NotCalled
    /\ IngestIdle /\ ForecastIdle

SpecRecurring == InitRecurring /\ [][FlagRecurring]_vars

-----------------------------------------------------------------------------
(* Specification SpecRules: apply_fixed_rules on every small batch *)

MaxRuleRows == 1

\* pieces of bank descriptions: one keyword of every rule as the table writes
\* it, other spellings, the direct-debit marker and text no rule knows
Fragments ==
    { <<>>,
      <<"a","r","h","s">>, <<"A","R","H","S">>,
      <<"d","e","s","p","e","s">>,
      <<"c","a","r","r","e","f","o","u","r">>,
      <<"F","M","S","B","-","F","S","M","B">>,
      <<"f","m","s","b","-","f","s","m","b">>,
      <<"e","s","t","a","l","v","i","s">>,
      <<"k","n","a","p","p","e","r">>,
      <<"S","T","I","B">>, <<"s","t","i","b">>,
      <<"c","a","n","t","i","n","e">>,
      <<"k","b","c"," ","p","l","u","s">>,
      <<"t","a","x","i"," ">>,
      DirectDebit }

Descriptions == {a \o b : a, b \in Fragments}

RuleRows ==
    [date : {0}, recipient : {1}, description : Descriptions,
     sender : {GeneralAccount}, origin : {NoOrigin}]

\* apply_fixed_rules mutates the batch in place
ApplyFixedRules ==
    /\ ~flags.called
    /\ flags' = [called |-> TRUE, value |-> flag_recurring(df)]
    /\ df' = apply_fixed_rules(df)
    /\ UNCHANGED <<ingestVars, forecastVars>>

InitRules ==
    /\ df \in SeqsUpTo(RuleRows, MaxRuleRows)
    /\ flags = NotCalled
    /\ IngestIdle /\ ForecastIdle

SpecRules == InitRules /\ [][ApplyFixedRules]_vars

-----------------------------------------------------------------------------
(* sarima: the balance series, the resampling and the differencing.         *)
(* The SARIMAX fit and the forecast values are statsmodels' and are not     *)
(* modelled; a call that reaches the fit is taken to return.  The result    *)
(* records how far the call came: resampled (line 58 done) and differenced  *)
(* (line 61 done).                                                          *)

\* the calendar: day 1 is 2026-01-01; the month ends of the first quarter
MonthEnds == {31, 59, 90}

SetMin(S) == CHOOSE x \in S : \A y \in S : x <= y
SetMax(S) == CHOOSE x \in S : \A y \in S : x >= y

RECURSIVE Ascending(_)
Ascending(S) == IF S = {} THEN <<>> ELSE <<SetMin(S)>> \o Ascending(S \ {SetMin(S)})

\* pd.date_range(start, end, freq): 'D' counts days from start, 'ME' gives
\* the month ends from start to end
date_range(start, end, freq) ==
    IF freq = "D" THEN Ascending(start..end)
    ELSE Ascending({g \in MonthEnds : start <= g /\ g <= end})

\* index.is_monotonic_increasing
is_monotonic(rows) ==
    /\ \A i \in DOMAIN rows : rows[i].date # NaT
    /\ \A i \in 1..(Len(rows) - 1) : rows[i].date <= rows[i + 1].date

\* balance = df.set_index('date')['balance'].sort_index()
\* balance = balance.groupby(balance.index).last()
\* a sorted index is left as it is; otherwise the sort is not stable and rows
\* of one date may end in any order.  NaT belongs to no group.
\* The set of series the two lines can give, each one date -> balance.
balance_series(rows) ==
    LET dates == {rows[i].date : i \in DOMAIN rows} \ {NaT}
        of(t) == {i \in DOMAIN rows : rows[i].date = t}
        last(t) == IF is_monotonic(rows) THEN {SetMax(of(t))} ELSE of(t)
    IN  {[t \in dates |-> rows[pick[t]].balance] :
            pick \in {q \in [dates -> DOMAIN rows] : \A t \in dates : q[t] \in last(t)}}

\* balance.reindex(full_index).ffill().fillna(0.0): reindex keeps the value
\* of a grid date that is an observed date and leaves the others missing;
\* ffill copies the last kept value forward; what is still missing is 0.0
observed_cumulative(balance, full_index) ==
    LET kept(k) == {j \in 1..k : full_index[j] \in DOMAIN balance} IN
    List([k \in DOMAIN full_index |->
        IF kept(k) = {} THEN 0 ELSE balance[full_index[SetMax(kept(k))]]])

\* observed_cumulative.diff().fillna(observed_cumulative.iloc[0])
period_amounts(observed) ==
    List([k \in DOMAIN observed |->
        IF k = 1 THEN observed[1] ELSE observed[k] - observed[k - 1]])

Raised(error, line, reached) ==
    [status |-> "raised", error |-> error, line |-> line, resampled |-> reached,
     differenced |-> FALSE, index |-> <<>>, observed_cumulative |-> <<>>, period_amounts |-> <<>>,
     last_cum |-> 0]

\* what sarima(data, frequency=freq) gives for one balance series
sarima_on(balance, freq) ==
    IF DOMAIN balance = {}
    THEN \* line 57: min() and max() of an empty index are NaT
         Raised("ValueError", 57, FALSE)
    ELSE LET full_index == date_range(SetMin(DOMAIN balance), SetMax(DOMAIN balance), freq)
             observed   == observed_cumulative(balance, full_index)
         IN  IF observed = <<>>
             THEN \* line 61: observed_cumulative.iloc[0] of an empty series
                  Raised("IndexError", 61, TRUE)
             ELSE [status |-> "returned", error |-> "none", line |-> 98,
                   resampled |-> TRUE, differenced |-> TRUE, index |-> full_index,
                   observed_cumulative |-> observed,
                   period_amounts |-> period_amounts(observed),
                   last_cum |-> observed[Len(observed)]]

sarima(rows, freq) == {sarima_on(balance, freq) : balance \in balance_series(rows)}

-----------------------------------------------------------------------------
(* Specification SpecForecast: sarima on every small transaction slice *)

MaxObs == 3

ObsDates == {1, 15, 31, 32, 59}
Balances == {3500, 5000}
Frequencies == {"D", "ME"}

Observations == [date : ObsDates \cup {NaT}, balance : Balances]

InitForecast ==
    /\ data \in {<<>>} \cup SeqsUpTo(Observations, MaxObs)
    /\ frequency \in Frequencies
    /\ result = [status |-> "none"]
    /\ IngestIdle /\ FrameIdle

Forecast ==
    /\ result.status = "none"
    /\ result' \in sarima(data, frequency)
    /\ UNCHANGED <<data, frequency, ingestVars, frameVars>>

SpecForecast == InitForecast /\ [][Forecast]_vars

-----------------------------------------------------------------------------
(* Properties of the ingestion (specification Spec) *)

\* a step of Preprocess: the raw directory is the one the run listed
IsRun == raw' = raw

Keys(reg) == DOMAIN reg.entries

RowsOf(rows, f) == LET from(r) == r.origin = f IN SelectSeq(rows, from)

\* C1: get_files with reprocess=False and a register file returns exactly the
\* raw files that are no key of the register, each once, with the register;
\* with reprocess=True or without a register file it returns every raw file,
\* each once, with an empty register.
C1_GetFilesPending ==
    [][IsRun =>
         /\ Len(run'.files) = Cardinality(Range(run'.files))
         /\ IF run'.reprocess \/ ~register.exists
            THEN /\ Range(run'.files) = DOMAIN raw
                 /\ DOMAIN run'.register = {}
            ELSE /\ Range(run'.files) = DOMAIN raw \ Keys(register)
                 /\ run'.register = register.entries]_vars

\* an incremental run that skipped registered files and still had work
C1_Witness ==
    /\ run.outcome # "none"
    /\ ~run.reprocess
    /\ DOMAIN run.register # {}
    /\ run.files # <<>>
    /\ Range(run.files) # DOMAIN raw

\* C2: once a file is in the register, a run with reprocess=False neither
\* reads it again nor adds a row of it to the persisted table, whatever the
\* file holds by then.
C2_IncrementalIdempotent ==
    [][(IsRun /\ ~run'.reprocess) =>
         \A f \in Keys(register) :
            /\ f \notin Range(run'.files)
            /\ RowsOf(run'.batch, f) = <<>>
            /\ Len(RowsOf(table'.rows, f)) <= Len(RowsOf(table.rows, f))
            /\ Range(RowsOf(table'.rows, f)) \subseteq Range(RowsOf(table.rows, f))]_vars

\* an incremental run wrote a batch while a registered file, whose persisted
\* rows are no longer what the file holds, stayed out of it
C2_Witness ==
    /\ ~run.reprocess
    /\ run.outcome = "written"
    /\ \E f \in Keys(register) \cap DOMAIN raw :
          /\ f \notin Range(run.files)
          /\ \E i \in DOMAIN table.rows :
                /\ table.rows[i].origin = f
                /\ \A j \in DOMAIN raw[f].rows :
                      raw[f].rows[j].description # table.rows[i].description

\* C3: a successful run with reprocess=False leaves the persisted table as
\* the previously persisted rows, all of them and in order, followed by the
\* rows of the new batch.
C3_AppendOnly ==
    [][(IsRun /\ ~run'.reprocess /\ run'.outcome = "written") =>
         table'.rows = table.rows \o run'.batch]_vars

\* C4: a run that raises leaves the register as it was, and every file a run
\* records in the register has rows in the table that run wrote.
C4_NoPartialCommit ==
    [][IsRun =>
         /\ (run'.outcome \notin {"written", "nothing to do"} => register' = register)
         /\ (run'.outcome = "written" =>
                \A f \in Keys(register') \ Keys(register) :
                    RowsOf(table'.rows, f) # <<>>)]_vars

\* C5: after a run with reprocess=True that does not raise, the persisted
\* table holds exactly the rows of that run's batch and the register's keys
\* are exactly the files of that run.
C5_ReprocessRebuilds ==
    [][(IsRun /\ run'.reprocess /\ run'.outcome \in {"written", "nothing to do"}) =>
         /\ table'.rows = run'.batch
         /\ Keys(register') = Range(run'.files)]_vars

\* C11: the rows of the persisted transaction table are in ascending order
\* of date after any sequence of runs.
C11_TableSortedByDate ==
    table.exists =>
        \A i, j \in DOMAIN table.rows :
            i < j => ~Before(table.rows[j].date, table.rows[i].date, NaT)

-----------------------------------------------------------------------------
(* Properties of flag_recurring (specification SpecRecurring) *)

HasMarker(d, i) == startswith(lower(d[i].description), marker)

SameRecipient(d, i, j) == d[i].recipient # NaN /\ d[i].recipient = d[j].recipient

\* row j comes before row i by date (rows of one date in their batch order)
Earlier(d, j, i) ==
    /\ d[j].date # NaT /\ d[i].date # NaT
    /\ (d[j].date < d[i].date \/ (d[j].date = d[i].date /\ j < i))

Predecessors(d, i) ==
    {j \in DOMAIN d :
        /\ SameRecipient(d, i, j) /\ Earlier(d, j, i)
        /\ ~\E k \in DOMAIN d :
               SameRecipient(d, i, k) /\ Earlier(d, j, k) /\ Earlier(d, k, i)}

Gap(d, i, j) == d[i].date - d[j].date

Periodic(d, i) == \E j \in Predecessors(d, i) : Gap(d, i, j) \in 27..33

\* C6: flag_recurring gives, for every row in the batch's own order, marker
\* OR periodic; the first row of a recipient is never flagged by the periodic
\* rule, a 30-day gap is flagged and a 10-day gap is not.
C6_FlagRecurring ==
    flags.called =>
        /\ Len(flags.value) = Len(df)
        /\ \A i \in DOMAIN df :
              /\ flags.value[i] = (HasMarker(df, i) \/ Periodic(df, i))
              /\ (Predecessors(df, i) = {} => flags.value[i] = HasMarker(df, i))
              /\ \A j \in Predecessors(df, i) :
                    /\ (Gap(df, i, j) = 30 => flags.value[i])
                    /\ (Gap(df, i, j) = 10 => flags.value[i] = HasMarker(df, i))

\* the sort moved a row: the later row of a recipient stands first in the
\* batch and is flagged by its gap alone, the earlier one is not flagged
C6_Witness ==
    /\ flags.called
    /\ \E i, j \in DOMAIN df :
          /\ i < j
          /\ j \in Predecessors(df, i)
          /\ Gap(df, i, j) = 30
          /\ ~HasMarker(df, i)
          /\ flags.value[i]
          /\ ~flags.value[j]

-----------------------------------------------------------------------------
(* Properties of apply_fixed_rules (specification SpecRules) *)

Matching(description) ==
    {k \in DOMAIN fixed_rules :
        \E w \in DOMAIN fixed_rules[k].keywords :
            HasSubstring(lower(description), fixed_rules[k].keywords[w])}

\* C7: a row whose lower-cased description contains a keyword of some rule
\* gets concept and is_essential of the matching rule declared last; a row
\* that matches no rule gets "Others" and false.
C7_LastMatchWins ==
    flags.called =>
        \A i \in DOMAIN df :
            LET m == Matching(df[i].description) IN
            IF m # {}
            THEN /\ df[i].concept = fixed_rules[SetMax(m)].concept
                 /\ df[i].is_essential = fixed_rules[SetMax(m)].is_essential
            ELSE /\ df[i].concept = "Others"
                 /\ df[i].is_essential = FALSE

\* a description matching two rules of different essential flags
C7_Witness ==
    /\ flags.called
    /\ \E i \in DOMAIN df :
          LET m == Matching(df[i].description) IN
          /\ Cardinality(m) >= 2
          /\ fixed_rules[SetMin(m)].is_essential # fixed_rules[SetMax(m)].is_essential
          /\ df[i].concept = fixed_rules[SetMax(m)].concept

\* C12: every declared rule can fire: a description that contains one of a
\* rule's keywords as the table writes it, and that no later rule matches,
\* gets that rule's category as concept.
C12_EveryRuleFires ==
    flags.called =>
        \A i \in DOMAIN df : \A k \in DOMAIN fixed_rules :
            (/\ \E w \in DOMAIN fixed_rules[k].keywords :
                    HasSubstring(df[i].description, fixed_rules[k].keywords[w])
             /\ \A j \in Matching(df[i].description) : j <= k)
            => df[i].concept = fixed_rules[k].concept

-----------------------------------------------------------------------------
(* Properties of sarima (specification SpecForecast) *)

ObservedDates == {data[i].date : i \in DOMAIN data} \ {NaT}

\* the last balance the slice holds for a date
LastBalance(t) == data[SetMax({i \in DOMAIN data : data[i].date = t})].balance

\* the regular grid at `frequency` from the first to the last observed date
Grid ==
    IF ObservedDates = {} THEN <<>>
    ELSE date_range(SetMin(ObservedDates), SetMax(ObservedDates), frequency)

RECURSIVE RunningSum(_, _)
RunningSum(series, k) == IF k = 0 THEN 0 ELSE RunningSum(series, k - 1) + series[k]

\* C8: observed_cumulative has one value per grid date, and the value at grid
\* date g is the last balance of the latest observed date at or before g
\* (0.0 only when there is none).
C8_ResampleForwardFill ==
    (result.status # "none" /\ result.resampled) =>
        /\ Len(result.observed_cumulative) = Len(Grid)
        /\ \A k \in DOMAIN result.observed_cumulative :
              LET seen == {t \in ObservedDates : t <= Grid[k]} IN
              result.observed_cumulative[k] =
                  IF seen = {} THEN 0 ELSE LastBalance(SetMax(seen))

\* C9: for a flat balance series period_amounts starts with the first
\* observed cumulative value and is zero afterwards; in general its running
\* sum reproduces observed_cumulative.
C9_FlatSeriesDifferences ==
    (result.status # "none" /\ result.differenced) =>
        /\ Len(result.period_amounts) = Len(result.observed_cumulative)
        /\ \A k \in DOMAIN result.period_amounts :
              RunningSum(result.period_amounts, k) = result.observed_cumulative[k]
        /\ (\A i, j \in DOMAIN data : data[i].balance = data[j].balance) =>
              /\ result.period_amounts[1] = result.observed_cumulative[1]
              /\ \A k \in 2..Len(result.period_amounts) : result.period_amounts[k] = 0

\* C10: with zero or one observed cumulative points (an empty slice, one
\* transaction date, no grid date between the first and the last observed
\* date) sarima returns instead of raising.
C10_DegenerateReturns ==
    (result.status # "none" /\ Len(Grid) <= 1) => result.status = "returned"

====
